---- MODULE Spec2Model ----
(***************************************************************************)
(* Model of hkopenai/hk_misc_mcp_server/tools/auction.py: the government   *)
(* auction tool.  One call of _get_government_auction_data is a state      *)
(* machine: validation, then one loop iteration per fetched list, then     *)
(* the return.  Strings the code inspects (language codes, dates, cell     *)
(* values) are sequences of one-character strings.                         *)
(***************************************************************************)
EXTENDS Integers, Sequences, FiniteSets, TLC

\* ------------------------------------------------------------------------
\* Bounds of the model
\* ------------------------------------------------------------------------

\* Rows the upstream source delivers during one call, summed over all lists.
MaxRows == 2

\* ------------------------------------------------------------------------
\* Characters and strings
\* ------------------------------------------------------------------------

LowerCase == <<"a","b","c","d","e","f","g","h","i","j","k","l","m",
               "n","o","p","q","r","s","t","u","v","w","x","y","z">>

UpperCase == <<"A","B","C","D","E","F","G","H","I","J","K","L","M",
               "N","O","P","Q","R","S","T","U","V","W","X","Y","Z">>

DigitChars == <<"0","1","2","3","4","5","6","7","8","9">>

\* str.upper() on one character
UpperChar(c) ==
    IF \E i \in 1..Len(LowerCase) : LowerCase[i] = c
    THEN UpperCase[CHOOSE i \in 1..Len(LowerCase) : LowerCase[i] = c]
    ELSE c

\* str.upper()
Upper(s) == [i \in 1..Len(s) |-> UpperChar(s[i])]

IsDigit(c) == \E i \in 1..10 : DigitChars[i] = c

DigitVal(c) == (CHOOSE i \in 1..10 : DigitChars[i] = c) - 1

DigitOf(n) == DigitChars[n + 1]

\* ------------------------------------------------------------------------
\* datetime
\* ------------------------------------------------------------------------

MINYEAR == 1

MAXYEAR == 9999

IsLeap(y) == (y % 4 = 0) /\ ((y % 100 # 0) \/ (y % 400 = 0))

DaysInMonth(y, m) ==
    IF m = 2 THEN (IF IsLeap(y) THEN 29 ELSE 28)
    ELSE IF m \in {4, 6, 9, 11} THEN 30 ELSE 31

\* datetime(year, month, day) succeeds
ValidDate(y, m, d) ==
    /\ y >= MINYEAR /\ y <= MAXYEAR
    /\ m >= 1 /\ m <= 12
    /\ d >= 1 /\ d <= DaysInMonth(y, m)

\* a <= b on datetimes
DateLE(a, b) ==
    \/ a.year < b.year
    \/ a.year = b.year /\ a.month < b.month
    \/ a.year = b.year /\ a.month = b.month /\ a.day <= b.day

\* the %d directive: 3[0-1] | [1-2]\d | 0[1-9] | [1-9] | " "[1-9]
DayToken(t) ==
    \/ Len(t) = 2 /\ t[1] = "3" /\ t[2] \in {"0", "1"}
    \/ Len(t) = 2 /\ t[1] \in {"1", "2"} /\ IsDigit(t[2])
    \/ Len(t) = 2 /\ t[1] \in {"0", " "} /\ IsDigit(t[2]) /\ t[2] # "0"
    \/ Len(t) = 1 /\ IsDigit(t[1]) /\ t[1] # "0"

\* the %m directive: 1[0-2] | 0[1-9] | [1-9]
MonthToken(t) ==
    \/ Len(t) = 2 /\ t[1] = "1" /\ t[2] \in {"0", "1", "2"}
    \/ Len(t) = 2 /\ t[1] = "0" /\ IsDigit(t[2]) /\ t[2] # "0"
    \/ Len(t) = 1 /\ IsDigit(t[1]) /\ t[1] # "0"

\* the %Y directive: \d\d\d\d
YearToken(t) == Len(t) = 4 /\ \A i \in 1..4 : IsDigit(t[i])

\* int() of a token of digits with an optional leading blank
TokenVal(t) ==
    IF Len(t) = 1 THEN DigitVal(t[1])
    ELSE IF Len(t) = 2
         THEN (IF t[1] = " " THEN 0 ELSE DigitVal(t[1])) * 10 + DigitVal(t[2])
         ELSE DigitVal(t[1]) * 1000 + DigitVal(t[2]) * 100
              + DigitVal(t[3]) * 10 + DigitVal(t[4])

\* The ways s splits as <day>/<month>/<year> with nothing left over.
Splits(s) ==
    {p \in {1, 2} \X {1, 2} :
        /\ Len(s) = p[1] + p[2] + 6
        /\ s[p[1] + 1] = "/"
        /\ s[p[1] + p[2] + 2] = "/"
        /\ DayToken(SubSeq(s, 1, p[1]))
        /\ MonthToken(SubSeq(s, p[1] + 2, p[1] + p[2] + 1))
        /\ YearToken(SubSeq(s, p[1] + p[2] + 3, Len(s)))}

SplitDate(s) ==
    LET p == CHOOSE q \in Splits(s) : TRUE
    IN  [year  |-> TokenVal(SubSeq(s, p[1] + p[2] + 3, Len(s))),
         month |-> TokenVal(SubSeq(s, p[1] + 2, p[1] + p[2] + 1)),
         day   |-> TokenVal(SubSeq(s, 1, p[1]))]

\* datetime.strptime(s, "%d/%m/%Y") does not raise ValueError
Parses(s) ==
    /\ Splits(s) # {}
    /\ LET d == SplitDate(s) IN ValidDate(d.year, d.month, d.day)

\* datetime.strptime(s, "%d/%m/%Y")
strptime(s) == SplitDate(s)

\* auction_date.isoformat().split("T")[0]
isoformat(d) ==
    <<DigitOf(d.year \div 1000), DigitOf((d.year \div 100) % 10),
      DigitOf((d.year \div 10) % 10), DigitOf(d.year % 10), "-",
      DigitOf(d.month \div 10), DigitOf(d.month % 10), "-",
      DigitOf(d.day \div 10), DigitOf(d.day % 10)>>

\* ------------------------------------------------------------------------
\* Rows and records
\* ------------------------------------------------------------------------

Columns == {"Date of Auction", "Auction List No.", "Lot No.",
            "Description", "Quantity", "Unit"}

\* dict.get(key, default)
Get(row, key, default) == IF key \in DOMAIN row THEN row[key] ELSE default

\* Optional[Dict]: None is the empty sequence, a dict d is <<d>>.
None == <<>>

Some(d) == <<d>>

\* truth value of an Optional[Dict]: None and the empty dict are false
Truthy(p) == p # None /\ DOMAIN p[1] # {}

\* ------------------------------------------------------------------------
\* Inputs of the model
\* ------------------------------------------------------------------------

StartYears == {2023, 2024, 2025, 2026}

StartMonths == {1, 2, 13}

EndYears == {0, 2024}

EndMonths == {0, 1}

LanguageInputs == {<<"e","n">>, <<"T","c">>, <<"S","C">>, <<"x","x">>, <<>>}

\* The calls of the model: every date range in one language, and every
\* language with one date range.
Calls ==
    [start_year : StartYears, start_month : StartMonths,
     end_year : EndYears, end_month : EndMonths, language : {<<"e","n">>}]
    \cup [start_year : {2024}, start_month : {1},
          end_year : {2024}, end_month : {1}, language : LanguageInputs]

ErrorMessages == {"HTTP 500", "timed out"}

RowFull ==
    ("Date of Auction" :> <<"2","8","/","0","1","/","2","0","2","4">>)
    @@ ("Auction List No." :> <<"5">>) @@ ("Lot No." :> <<"C">>)
    @@ ("Description" :> <<"W">>) @@ ("Quantity" :> <<"2">>)
    @@ ("Unit" :> <<"N">>)

RowDay29 ==
    ("Date of Auction" :> <<"2","9","/","0","1","/","2","0","2","4">>)
    @@ ("Description" :> <<"X">>) @@ ("Quantity" :> <<"3">>)

RowShortDate ==
    ("Date of Auction" :> <<"1","/","1","/","2","0","2","4">>)
    @@ ("Description" :> <<"Y">>) @@ ("Quantity" :> <<"1">>)
    @@ ("Unit" :> <<"N">>)

RowIsoDate ==
    ("Date of Auction" :> <<"2","0","2","4","-","0","1","-","2","8">>)
    @@ ("Lot No." :> <<"C">>)
    @@ ("Description" :> <<"Z">>) @@ ("Quantity" :> <<"1">>)

RowNoDate == ("Description" :> <<"V">>) @@ ("Quantity" :> <<"9">>)

RowNoDescription ==
    ("Date of Auction" :> <<"2","8","/","0","1","/","2","0","2","4">>)
    @@ ("Lot No." :> <<"M">>) @@ ("Quantity" :> <<"2">>)

RowNoQuantity ==
    ("Date of Auction" :> <<"n","/","a">>) @@ ("Description" :> <<"W">>)

RowEmptyDescription ==
    ("Date of Auction" :> <<"2","8","/","0","1","/","2","0","2","4">>)
    @@ ("Description" :> <<>>) @@ ("Quantity" :> <<"1">>)

Rows == {RowFull, RowDay29, RowShortDate, RowIsoDate, RowNoDate,
         RowNoDescription, RowNoQuantity, RowEmptyDescription}

\* The non-empty tables of at most n rows.
Tables(n) == UNION {[1..k -> Rows] : k \in 1..n}

\* ------------------------------------------------------------------------
\* validate_language, create_date_range, process_auction_row
\* ------------------------------------------------------------------------

EN == <<"E","N">>

TC == <<"T","C">>

SC == <<"S","C">>

\* Variant: the code is compared as given, without upper().
validate_language_exact(language) ==
    IF language \notin {EN, TC, SC}
    THEN [ok |-> FALSE, lang |-> language]
    ELSE [ok |-> TRUE, lang |-> language]

\* ok = FALSE: raise ValueError
validate_language(language) ==
    LET lang == Upper(language)
    IN  IF lang \notin {EN, TC, SC}
        THEN [ok |-> FALSE, lang |-> lang]
        ELSE [ok |-> TRUE, lang |-> lang]

\* Variant: the end boundary is the last day of the end month.
create_date_range_month_end(start_year, start_month, end_year, end_month) ==
    IF ~ValidDate(start_year, start_month, 1)
       \/ ~ValidDate(end_year, end_month, 28)
    THEN [ok |-> FALSE]
    ELSE [ok |-> TRUE,
          start_date |-> [year |-> start_year, month |-> start_month, day |-> 1],
          end_date |-> [year |-> end_year, month |-> end_month,
                        day |-> DaysInMonth(end_year, end_month)]]

\* ok = FALSE: datetime(...) raises ValueError
create_date_range(start_year, start_month, end_year, end_month) ==
    IF ~ValidDate(start_year, start_month, 1)
       \/ ~ValidDate(end_year, end_month, 28)
    THEN [ok |-> FALSE]
    ELSE [ok |-> TRUE,
          start_date |-> [year |-> start_year, month |-> start_month, day |-> 1],
          end_date |-> [year |-> end_year, month |-> end_month, day |-> 28]]

\* the dict process_auction_row builds around a date string
Formatted(row, date_str) ==
    ("Date of Auction" :> date_str)
    @@ ("Auction List No." :> Get(row, "Auction List No.", <<>>))
    @@ ("Lot No." :> Get(row, "Lot No.", <<>>))
    @@ ("Description" :> row["Description"])
    @@ ("Quantity" :> row["Quantity"])
    @@ ("Unit" :> Get(row, "Unit", <<>>))

\* Variant: the end boundary is exclusive.
process_auction_row_end_exclusive(row, start_date, end_date) ==
    IF "Description" \notin DOMAIN row \/ "Quantity" \notin DOMAIN row
    THEN None
    ELSE LET auction_date_str == Get(row, "Date of Auction", <<>>)
         IN  IF Parses(auction_date_str)
             THEN LET auction_date == strptime(auction_date_str)
                  IN  IF DateLE(start_date, auction_date)
                         /\ DateLE(auction_date, end_date)
                         /\ auction_date # end_date
                      THEN Some(Formatted(row, isoformat(auction_date)))
                      ELSE None
             ELSE Some(Formatted(row, auction_date_str))

\* Variant: a row whose date does not parse is dropped.
process_auction_row_drop_unparsed(row, start_date, end_date) ==
    IF "Description" \notin DOMAIN row \/ "Quantity" \notin DOMAIN row
    THEN None
    ELSE LET auction_date_str == Get(row, "Date of Auction", <<>>)
         IN  IF Parses(auction_date_str)
             THEN LET auction_date == strptime(auction_date_str)
                  IN  IF DateLE(start_date, auction_date)
                         /\ DateLE(auction_date, end_date)
                      THEN Some(Formatted(row, isoformat(auction_date)))
                      ELSE None
             ELSE None

\* Variant: only the end boundary is compared.
process_auction_row_no_start(row, start_date, end_date) ==
    IF "Description" \notin DOMAIN row \/ "Quantity" \notin DOMAIN row
    THEN None
    ELSE LET auction_date_str == Get(row, "Date of Auction", <<>>)
         IN  IF Parses(auction_date_str)
             THEN LET auction_date == strptime(auction_date_str)
                  IN  IF DateLE(auction_date, end_date)
                      THEN Some(Formatted(row, isoformat(auction_date)))
                      ELSE None
             ELSE Some(Formatted(row, auction_date_str))

\* Variant: the required columns are not checked and are read with a
\* default, like the optional ones.
process_auction_row_unchecked(row, start_date, end_date) ==
    LET auction_date_str == Get(row, "Date of Auction", <<>>)
        full == ("Description" :> Get(row, "Description", <<>>))
                @@ ("Quantity" :> Get(row, "Quantity", <<>>)) @@ row
    IN  IF Parses(auction_date_str)
        THEN LET auction_date == strptime(auction_date_str)
             IN  IF DateLE(start_date, auction_date)
                    /\ DateLE(auction_date, end_date)
                 THEN Some(Formatted(full, isoformat(auction_date)))
                 ELSE None
        ELSE Some(Formatted(full, auction_date_str))

process_auction_row(row, start_date, end_date) ==
    IF "Description" \notin DOMAIN row \/ "Quantity" \notin DOMAIN row
    THEN None
    ELSE LET auction_date_str == Get(row, "Date of Auction", <<>>)
         IN  IF Parses(auction_date_str)
             THEN LET auction_date == strptime(auction_date_str)
                  IN  IF DateLE(start_date, auction_date)
                         /\ DateLE(auction_date, end_date)
                      THEN Some(Formatted(row, isoformat(auction_date)))
                      ELSE None
             ELSE Some(Formatted(row, auction_date_str))

\* ------------------------------------------------------------------------
\* _get_government_auction_data
\* ------------------------------------------------------------------------

\* list number the traversal of every year starts from
FirstListNo == 24

\* base_url.format(current_list_no, current_year, lang)
Url(current_list_no, current_year, lang) ==
    <<current_list_no, current_year, lang>>

\* What fetch_csv_from_url returns: a dict with the key "error", or a list
\* of rows.
ErrorResponse(msg) == [kind |-> "dict", error |-> msg]

RowsResponse(rows) == [kind |-> "list", rows |-> rows]

\* "error" in csv_data
HasError(csv_data) == csv_data.kind = "dict"

\* Variant: the record is put at the front.
list_prepend(result, processed_row) == <<processed_row>> \o result

\* result.append(processed_row)
list_append(result, processed_row) == Append(result, processed_row)

\* for row in csv_data: ... result.append(processed_row)
RECURSIVE process_rows(_, _, _, _)
process_rows(result, rows, start_date, end_date) ==
    IF rows = <<>> THEN result
    ELSE LET processed_row ==
                 process_auction_row(Head(rows), start_date, end_date)
         IN  process_rows(IF Truthy(processed_row)
                          THEN list_append(result, processed_row[1])
                          ELSE result,
                          Tail(rows), start_date, end_date)

\* Variant: a failed fetch returns the records gathered so far.
error_value_partial(result, csv_data) == [type |-> "list", value |-> result]

\* return {"type": "Error", "error": csv_data["error"]}
error_value(result, csv_data) == [type |-> "Error", error |-> csv_data.error]

\* return result
list_value(result) == [type |-> "list", value |-> result]

\* Variant: the roll-over restarts the list numbers of the same year.
next_position_same_year(current_year, current_list_no) ==
    IF current_list_no - 1 < 1
    THEN [current_year |-> current_year, current_list_no |-> FirstListNo]
    ELSE [current_year |-> current_year, current_list_no |-> current_list_no - 1]

\* Variant: the roll-over happens one list number too late.
next_position_late(current_year, current_list_no) ==
    IF current_list_no - 1 < 0
    THEN [current_year |-> current_year - 1, current_list_no |-> FirstListNo]
    ELSE [current_year |-> current_year, current_list_no |-> current_list_no - 1]

\* current_list_no -= 1, and the roll-over to the year before
next_position(current_year, current_list_no) ==
    IF current_list_no - 1 < 1
    THEN [current_year |-> current_year - 1, current_list_no |-> FirstListNo]
    ELSE [current_year |-> current_year, current_list_no |-> current_list_no - 1]

Pending == [type |-> "pending"]

\* Variant: the traversal stops at the first resource without rows.
loop_body_stop_on_empty(current_year, current_list_no, result, csv_data, start_date, end_date, start_year) ==
    IF HasError(csv_data)
    THEN [pc |-> "done", retval |-> error_value(result, csv_data),
          result |-> result,
          current_year |-> current_year, current_list_no |-> current_list_no]
    ELSE IF csv_data.rows = <<>>
    THEN [pc |-> "done", retval |-> list_value(result), result |-> result,
          current_year |-> current_year, current_list_no |-> current_list_no]
    ELSE LET res == process_rows(result, csv_data.rows, start_date, end_date)
             pos == next_position(current_year, current_list_no)
         IN  IF pos.current_year # current_year /\ pos.current_year < start_year
             THEN [pc |-> "done", retval |-> list_value(res), result |-> res,
                   current_year |-> pos.current_year,
                   current_list_no |-> pos.current_list_no]
             ELSE [pc |-> "loop", retval |-> Pending, result |-> res,
                   current_year |-> pos.current_year,
                   current_list_no |-> pos.current_list_no]

\* One iteration of the while loop, given what the fetch returned.
loop_body(current_year, current_list_no, result, csv_data, start_date, end_date, start_year) ==
    IF HasError(csv_data)
    THEN [pc |-> "done", retval |-> error_value(result, csv_data),
          result |-> result,
          current_year |-> current_year, current_list_no |-> current_list_no]
    ELSE LET res == IF csv_data.rows # <<>>
                    THEN process_rows(result, csv_data.rows,
                                      start_date, end_date)
                    ELSE result
             pos == next_position(current_year, current_list_no)
         IN  IF pos.current_year # current_year /\ pos.current_year < start_year
             THEN [pc |-> "done", retval |-> list_value(res), result |-> res,
                   current_year |-> pos.current_year,
                   current_list_no |-> pos.current_list_no]
             ELSE [pc |-> "loop", retval |-> Pending, result |-> res,
                   current_year |-> pos.current_year,
                   current_list_no |-> pos.current_list_no]

VARIABLES
    pc,               \* "idle", "loop" or "done"
    args,             \* the five arguments of the call
    lang,             \* validated language code
    start_date,
    end_date,
    current_year,
    current_list_no,
    result,
    retval,           \* what the call returned or raised
    fetched,          \* history: the urls fetched, in order
    rowsSeen,         \* history: the rows the fetches returned, in order
    origin,           \* history: the row each element of result was made from
    failure           \* history: <<>> or the one failed fetch

vars == <<pc, args, lang, start_date, end_date, current_year, current_list_no,
          result, retval, fetched, rowsSeen, origin, failure>>

NoDate == [year |-> 0, month |-> 0, day |-> 0]

Init ==
    /\ pc = "idle"
    /\ args \in Calls
    /\ lang = <<>>
    /\ start_date = NoDate
    /\ end_date = NoDate
    /\ current_year = 0
    /\ current_list_no = 0
    /\ result = <<>>
    /\ retval = Pending
    /\ fetched = <<>>
    /\ rowsSeen = <<>>
    /\ origin = <<>>
    /\ failure = <<>>

\* Lines 113-122: validation and the loop's initial position.
Enter ==
    /\ pc = "idle"
    /\ LET v == validate_language(args.language)
           r == create_date_range(args.start_year, args.start_month,
                                  args.end_year, args.end_month)
       IN  IF ~v.ok \/ ~r.ok
           THEN /\ pc' = "done"
                /\ retval' = [type |-> "ValueError"]
                /\ UNCHANGED <<lang, start_date, end_date,
                               current_year, current_list_no>>
           ELSE /\ pc' = "loop"
                /\ lang' = v.lang
                /\ start_date' = r.start_date
                /\ end_date' = r.end_date
                /\ current_year' = args.end_year
                /\ current_list_no' = FirstListNo
                /\ UNCHANGED retval
    /\ UNCHANGED <<args, result, fetched, rowsSeen, origin, failure>>

\* One iteration: the fetch of the current url returned csv_data.
Iterate(csv_data) ==
    /\ pc = "loop"
    /\ current_year >= args.start_year
    /\ LET n == loop_body(current_year, current_list_no, result, csv_data,
                          start_date, end_date, args.start_year)
       IN  /\ pc' = n.pc
           /\ retval' = n.retval
           /\ result' = n.result
           /\ current_year' = n.current_year
           /\ current_list_no' = n.current_list_no
    /\ fetched' = Append(fetched, Url(current_list_no, current_year, lang))
    /\ UNCHANGED <<args, lang, start_date, end_date>>

\* The kept rows of a table, in order.
KeptRows(rows) ==
    SelectSeq(rows, LAMBDA r :
                  Truthy(process_auction_row(r, start_date, end_date)))

\* The resource does not exist or has no rows.
FetchEmpty ==
    /\ Iterate(RowsResponse(<<>>))
    /\ UNCHANGED <<rowsSeen, origin, failure>>

\* The resource has rows.
FetchRows ==
    \E rows \in Tables(MaxRows - Len(rowsSeen)) :
        /\ Iterate(RowsResponse(rows))
        /\ rowsSeen' = rowsSeen \o rows
        /\ origin' = origin \o KeptRows(rows)
        /\ UNCHANGED failure

\* The fetch fails.
FetchError ==
    \E msg \in ErrorMessages :
        /\ Iterate(ErrorResponse(msg))
        /\ failure' = <<[at |-> Len(fetched) + 1, error |-> msg]>>
        /\ UNCHANGED <<rowsSeen, origin>>

\* Line 142, reached when the while condition is false.
Return ==
    /\ pc = "loop"
    /\ ~(current_year >= args.start_year)
    /\ pc' = "done"
    /\ retval' = list_value(result)
    /\ UNCHANGED <<args, lang, start_date, end_date, current_year,
                   current_list_no, result, fetched, rowsSeen, origin, failure>>

Next == Enter \/ FetchEmpty \/ FetchRows \/ FetchError \/ Return

Spec == Init /\ [][Next]_vars

\* ------------------------------------------------------------------------
\* Vocabulary of the properties
\* ------------------------------------------------------------------------

\* The call got past validation.
Validated == pc # "idle" /\ retval.type # "ValueError"

\* The call returned a list.
ReturnedList == pc = "done" /\ retval.type = "list"

\* The (year, listNumber) pairs fetched so far, in order.
FetchedIds == [i \in 1..Len(fetched) |-> <<fetched[i][2], fetched[i][1]>>]

\* (endYear,24), ..., (endYear,1), (endYear-1,24), ..., (startYear,1)
ExpectedIds ==
    IF args.end_year < args.start_year THEN <<>>
    ELSE [i \in 1..(24 * (args.end_year - args.start_year + 1)) |->
             <<args.end_year - ((i - 1) \div 24), 24 - ((i - 1) % 24)>>]

IsPrefix(s, t) == Len(s) <= Len(t) /\ \A i \in 1..Len(s) : s[i] = t[i]

\* C1: in a validated call the fetched identifiers are always a prefix of
\* (endYear,24),...,(startYear,1), every url carries the validated language,
\* and a call that ends with no failed fetch has fetched exactly that
\* sequence: each identifier of the range once, in descending order, no other.
C1_TraversalOrder ==
    Validated =>
        /\ IsPrefix(FetchedIds, ExpectedIds)
        /\ \A i \in 1..Len(fetched) : fetched[i][3] = lang
        /\ (pc = "done" /\ failure = <<>>) => FetchedIds = ExpectedIds

C1_Witness ==
    /\ pc = "done"
    /\ failure = <<>>
    /\ args.start_year = 2023 /\ args.end_year = 2024
    /\ Len(fetched) = 48
    /\ FetchedIds[24] = <<2024, 1>>
    /\ FetchedIds[25] = <<2023, 24>>

\* C2: once a fetch has failed the call is over, its whole return value is
\* {type: "Error", error: <the failed fetch's message>} with no record in
\* it, and the failed fetch is the last one issued; an error value is
\* returned only after a failed fetch.
C2_ErrorDiscardsAll ==
    /\ failure # <<>> =>
          /\ pc = "done"
          /\ retval = [type |-> "Error", error |-> failure[1].error]
          /\ Len(fetched) = failure[1].at
    /\ (pc = "done" /\ retval.type = "Error") => failure # <<>>

C2_Witness ==
    /\ failure # <<>>
    /\ Len(result) = 2
    /\ failure[1].at > 24
    /\ retval = [type |-> "Error", error |-> "timed out"]

\* The spellings of EN, TC and SC in any letter case.
AcceptedSpellings ==
    {<<"E","N">>, <<"E","n">>, <<"e","N">>, <<"e","n">>,
     <<"T","C">>, <<"T","c">>, <<"t","C">>, <<"t","c">>,
     <<"S","C">>, <<"S","c">>, <<"s","C">>, <<"s","c">>}

\* The upper-case code of an accepted spelling.
CodeOf(s) ==
    IF s[1] \in {"E", "e"} THEN <<"E","N">>
    ELSE IF s[1] \in {"T", "t"} THEN <<"T","C">> ELSE <<"S","C">>

BadArguments ==
    \/ args.language \notin AcceptedSpellings
    \/ args.start_month \notin 1..12
    \/ args.end_month \notin 1..12

\* C3: a call with a language outside EN/TC/SC (compared without case) or a
\* month outside 1..12 ends in ValueError before any fetch; validate_language
\* accepts every spelling of EN, TC, SC and returns the upper-case code, and
\* a call with such a language and a valid date range proceeds with it.
C3_ValidationFailsFast ==
    /\ (pc # "idle" /\ BadArguments) =>
          /\ pc = "done"
          /\ retval = [type |-> "ValueError"]
          /\ fetched = <<>>
    /\ \A s \in AcceptedSpellings :
          validate_language(s) = [ok |-> TRUE, lang |-> CodeOf(s)]
    /\ \A s \in LanguageInputs \ AcceptedSpellings : ~validate_language(s).ok
    /\ (pc # "idle" /\ ~BadArguments
        /\ args.start_year \in 1..9999 /\ args.end_year \in 1..9999) =>
          /\ retval.type # "ValueError"
          /\ lang = CodeOf(args.language)

C3_Witness ==
    /\ pc = "done"
    /\ retval = [type |-> "ValueError"]
    /\ args.language = <<"e","n">>
    /\ args.start_month = 13
    /\ args.end_month = 1
    /\ fetched = <<>>

\* ------------------------------------------------------------------------
\* Rows and the result
\* ------------------------------------------------------------------------

\* The row has both required columns.
HasBoth(r) == "Description" \in DOMAIN r /\ "Quantity" \in DOMAIN r

\* The row's date cell, the empty string when the column is absent.
DateOf(r) == IF "Date of Auction" \in DOMAIN r THEN r["Date of Auction"] ELSE <<>>

\* Day 1 of the start month and day 28 of the end month, as numbers yyyymmdd.
RangeStart == args.start_year * 10000 + args.start_month * 100 + 1

RangeEnd == args.end_year * 10000 + args.end_month * 100 + 28

Ordinal(d) == d.year * 10000 + d.month * 100 + d.day

Dated(r) == HasBoth(r) /\ Parses(DateOf(r))

Undated(r) == HasBoth(r) /\ ~Parses(DateOf(r))

InRange(r) ==
    LET n == Ordinal(strptime(DateOf(r))) IN RangeStart <= n /\ n <= RangeEnd

\* The record a kept row becomes: the given date, the other five columns
\* copied, an absent column as the empty string.
RecordOf(r, date) ==
    [c \in Columns |->
        IF c = "Date of Auction" THEN date
        ELSE IF c \in DOMAIN r THEN r[c] ELSE <<>>]

\* C4: when the call returns a list, the rows with both required columns
\* and a date that parses as DD/MM/YYYY that are in the list are exactly the
\* fetched ones whose date d has start <= d <= end (start = day 1 of the
\* start month, end = day 28 of the end month), and each is returned with
\* the date as YYYY-MM-DD, the other five columns copied and an absent
\* column empty.
C4_DatedRowsFiltered ==
    ReturnedList =>
        /\ Len(retval.value) = Len(origin)
        /\ SelectSeq(origin, Dated)
             = SelectSeq(rowsSeen, LAMBDA r : Dated(r) /\ InRange(r))
        /\ \A i \in 1..Len(origin) :
              Dated(origin[i]) =>
                 /\ retval.value[i]
                      = RecordOf(origin[i], isoformat(strptime(DateOf(origin[i]))))
                 /\ Len(retval.value[i]["Date of Auction"]) = 10
                 /\ (origin[i] = RowShortDate =>
                        retval.value[i]["Date of Auction"]
                          = <<"2","0","2","4","-","0","1","-","0","1">>)
                 /\ (origin[i] = RowFull =>
                        retval.value[i]["Date of Auction"]
                          = <<"2","0","2","4","-","0","1","-","2","8">>)

C4_Witness ==
    /\ ReturnedList
    /\ args.start_year = 2024 /\ args.start_month = 1
    /\ rowsSeen = <<RowDay29, RowFull>>
    /\ Len(retval.value) = 1
    /\ retval.value[1]["Description"] = <<"W">>
    /\ retval.value[1]["Date of Auction"]
         = <<"2","0","2","4","-","0","1","-","2","8">>

\* C5: when the call returns a list, every fetched row with both required
\* columns whose date does not parse (an absent date column counts as the
\* empty string) is in the list, whatever the date range, with the date
\* cell as it came; and a call with no failed fetch returns a list.
C5_UndatedRowsPassThrough ==
    /\ ReturnedList =>
          /\ Len(retval.value) = Len(origin)
          /\ SelectSeq(origin, Undated) = SelectSeq(rowsSeen, Undated)
          /\ \A i \in 1..Len(origin) :
                Undated(origin[i]) =>
                    retval.value[i] = RecordOf(origin[i], DateOf(origin[i]))
    /\ (pc = "done" /\ Validated /\ failure = <<>>) => retval.type = "list"

C5_Witness ==
    /\ ReturnedList
    /\ args.start_year = 2024 /\ args.start_month = 2
    /\ rowsSeen = <<RowIsoDate, RowNoDate>>
    /\ Len(retval.value) = 2
    /\ retval.value[1]["Date of Auction"]
         = <<"2","0","2","4","-","0","1","-","2","8">>
    /\ retval.value[2]["Date of Auction"] = <<>>

\* The start boundary is later than the end boundary.
StartAfterEnd ==
    \/ args.start_year > args.end_year
    \/ args.start_year = args.end_year /\ args.start_month > args.end_month

\* C6 as stated: a validated call whose start boundary is later than its
\* end boundary returns the empty list, whatever the upstream holds.
C6_EmptyWhenStartAfterEnd ==
    (pc = "done" /\ Validated /\ StartAfterEnd) =>
        retval = [type |-> "list", value |-> <<>>]

\* C6 amended: a validated call whose start boundary is later than its end
\* boundary returns no row whose date parses.  With startYear > endYear it
\* fetches nothing and returns the empty list; with equal years it returns
\* the error value if a fetch fails, and otherwise the list of exactly the
\* fetched rows with both required columns and an unparseable date.
C6_NoDatedRowWhenStartAfterEnd ==
    (pc = "done" /\ Validated /\ StartAfterEnd) =>
        /\ args.start_year > args.end_year =>
              /\ fetched = <<>>
              /\ retval = [type |-> "list", value |-> <<>>]
        /\ failure # <<>> => retval.type = "Error"
        /\ failure = <<>> =>
              /\ retval.type = "list"
              /\ Len(retval.value) = Len(origin)
              /\ origin = SelectSeq(rowsSeen, Undated)
              /\ \A i \in 1..Len(origin) :
                    retval.value[i]["Date of Auction"] = DateOf(origin[i])

C6_Witness ==
    /\ ReturnedList
    /\ args.start_year = 2024 /\ args.start_month = 2
    /\ args.end_year = 2024 /\ args.end_month = 1
    /\ rowsSeen = <<RowFull, RowShortDate>>
    /\ Len(fetched) = 24
    /\ retval.value = <<>>

\* C7 as stated: at every point of the traversal every record of the
\* accumulated result has a non-empty Description and a non-empty Quantity.
C7_RequiredFieldsNonEmpty ==
    \A i \in 1..Len(result) :
        /\ result[i]["Description"] # <<>>
        /\ result[i]["Quantity"] # <<>>

\* C8: no record of the result comes from a row without the Description or
\* the Quantity column, whatever the row's date; such a row raises nothing
\* and does not stop the traversal: a call without a failed fetch still
\* fetches every identifier of the range and returns a list.
C8_RowsMissingRequiredDropped ==
    /\ Len(result) = Len(origin)
    /\ \A i \in 1..Len(origin) :
          /\ HasBoth(origin[i])
          /\ result[i]["Description"] = origin[i]["Description"]
          /\ result[i]["Quantity"] = origin[i]["Quantity"]
    /\ Len(result) <= Len(SelectSeq(rowsSeen, HasBoth))
    /\ (pc = "done" /\ Validated /\ failure = <<>>) =>
          /\ retval = [type |-> "list", value |-> result]
          /\ Len(fetched) = Len(ExpectedIds)

C8_Witness ==
    /\ ReturnedList
    /\ args.start_year = 2024 /\ args.start_month = 1
    /\ rowsSeen = <<RowNoDescription, RowNoQuantity>>
    /\ Len(fetched) = 24
    /\ retval.value = <<>>

C10_ResultInTraversalOrder ==
    [][/\ IsPrefix(result, result')
       /\ IsPrefix(rowsSeen, rowsSeen')
       /\ Len(result') = Len(origin')
       /\ origin' = SelectSeq(rowsSeen', LAMBDA r :
                                  \E i \in 1..Len(origin') : origin'[i] = r)
       /\ \A i \in 1..Len(origin') :
             /\ HasBoth(origin'[i])
             /\ \A c \in Columns \ {"Date of Auction"} :
                   result'[i][c] = RecordOf(origin'[i], <<>>)[c]
       /\ (pc' = "done" /\ retval'.type = "list") => retval'.value = result'
      ]_vars

C10_Witness ==
    /\ ReturnedList
    /\ rowsSeen = <<RowIsoDate, RowFull>>
    /\ Len(fetched) = 24
    /\ Len(retval.value) = 2
    /\ retval.value[1]["Description"] = <<"Z">>
    /\ retval.value[2]["Description"] = <<"W">>

\* ------------------------------------------------------------------------
\* Termination
\* ------------------------------------------------------------------------

\* C11 as stated: a validated call that has ended has issued at most
\* 24 * (endYear - startYear + 1) fetches.
C11_FetchesWithinProduct ==
    (pc = "done" /\ Validated) =>
        Len(fetched) <= 24 * (args.end_year - args.start_year + 1)

\* The number of identifiers in the requested range of years.
FetchLimit ==
    IF args.end_year - args.start_year + 1 > 0
    THEN 24 * (args.end_year - args.start_year + 1)
    ELSE 0

\* The identifiers the loop has still to fetch.
Remaining ==
    IF pc = "loop" /\ current_year >= args.start_year
    THEN (current_year - args.start_year) * 24 + current_list_no
    ELSE 0

\* C11 amended: a validated call ends after at most
\* 24 * (endYear - startYear + 1) fetches, or none when that product is
\* negative.  While the loop runs, the fetches issued and the identifiers
\* still to fetch add up to that limit; every step either ends the call,
\* with a list or an error value, or issues one fetch and leaves fewer
\* identifiers to fetch; and the loop is never left with nothing to do.
C11_TerminatesWithinLimit ==
    [][/\ Len(fetched') <= FetchLimit
       /\ pc' = "loop" =>
             /\ Len(fetched') + Remaining' = FetchLimit
             /\ Remaining' >= 0
             /\ Remaining' > 0 \/ fetched' = <<>>
       /\ (pc = "loop" /\ pc' = "loop") =>
             /\ Remaining' < Remaining
             /\ Len(fetched') = Len(fetched) + 1
       /\ (pc = "loop" /\ pc' # "loop") =>
             /\ pc' = "done"
             /\ retval'.type \in {"list", "Error"}
       /\ (pc = "idle" /\ pc' # "loop") =>
             /\ pc' = "done"
             /\ retval'.type = "ValueError"
      ]_vars

C11_Witness ==
    /\ pc = "done"
    /\ retval.type = "list"
    /\ args.start_year = 2023 /\ args.end_year = 2024
    /\ Len(fetched) = 48
    /\ Len(rowsSeen) = 2

\* ------------------------------------------------------------------------
\* The end of the end month
\* ------------------------------------------------------------------------

\* The row has both required columns and a date in the requested end month.
InEndMonth(r) ==
    /\ Dated(r)
    /\ strptime(DateOf(r)).year = args.end_year
    /\ strptime(DateOf(r)).month = args.end_month

DayOf(r) == strptime(DateOf(r)).day

\* C12: when the call returns a list, no row dated on day 29, 30 or 31 of
\* the requested end month is in it, and the rows of that month that are in
\* it are exactly the fetched ones with both required columns, a day from 1
\* to 28 and a date not before the start boundary.
C12_EndMonthStopsAtDay28 ==
    ReturnedList =>
        /\ Len(retval.value) = Len(origin)
        /\ SelectSeq(origin, LAMBDA r : InEndMonth(r) /\ DayOf(r) >= 29) = <<>>
        /\ SelectSeq(origin, InEndMonth)
             = SelectSeq(rowsSeen, LAMBDA r :
                             /\ InEndMonth(r)
                             /\ DayOf(r) >= 1 /\ DayOf(r) <= 28
                             /\ RangeStart <= Ordinal(strptime(DateOf(r))))
        /\ \A i \in 1..Len(origin) :
              InEndMonth(origin[i]) =>
                  /\ retval.value[i]["Description"] = origin[i]["Description"]
                  /\ retval.value[i]["Quantity"] = origin[i]["Quantity"]

C12_Witness ==
    /\ ReturnedList
    /\ args.start_year = 2023 /\ args.start_month = 2
    /\ args.end_year = 2024 /\ args.end_month = 1
    /\ rowsSeen = <<RowFull, RowDay29>>
    /\ Len(fetched) = 48
    /\ Len(retval.value) = 1
    /\ retval.value[1]["Description"] = <<"W">>

====
